---- MODULE Spec2Model ----
(***************************************************************************)
(* The admin endpoint that restores a JSON database backup                 *)
(* (server/api/admin/backup/restore.post.ts).                              *)
(*                                                                         *)
(* One invocation of the handler is a sequence of steps delimited by the   *)
(* awaits of the code: the synchronous request validation, one step per    *)
(* awaited deleteMany of the pre-clear, one step per awaited upsert/create *)
(* of the replay (with the synchronous loop code that follows it), and the *)
(* end of the transaction with the post-step.  Two invocations share the   *)
(* store; every other piece of state is local to an invocation.           *)
(***************************************************************************)
EXTENDS Integers, Sequences, FiniteSets, TLC

VARIABLES pc, req, res, restoredCount, ci, ti, ri, store, undo, log, response

vars == <<pc, req, res, restoredCount, ci, ti, ri, store, undo, log, response>>

(* ------------------------------ bounds -------------------------------- *)

\* entries (collections) of one backup document
MaxTables == 2
\* records of one backup document, summed over its collections
MaxRecs == 2

\* the two request-handling contexts that may run at the same time
Invs == {1, 2}

(* ------------------------- collections and rows ----------------------- *)

restoreOrder ==
    << "systemSettings", "playTimes", "semesters", "users", "songs",
       "votes", "schedules", "notificationSettings", "notifications" >>

\* the order of the deleteMany calls of the pre-clear
clearOrder ==
    << "notifications", "notificationSettings", "schedules", "votes", "songs",
       "users", "playTimes", "semesters", "systemSettings" >>

Tables == {restoreOrder[k] : k \in 1..Len(restoreOrder)}

\* the cases of the switch; every other table name reaches its default
Supported == {"users", "songs", "playTimes", "semesters", "systemSettings"}

\* names a document may use for its collections: the nine tables and one more
DocNames == Tables \cup {"foo"}

\* natural keys that occur in documents and in the stored rows
Keys == {1, 2}

\* records a document may hold for a collection (the fields the code reads)
RecordsOf(t) ==
    CASE t = "users"          -> [username : Keys, name : {"new"}, password : {"new"}]
      [] t = "semesters"      -> [name : Keys, isActive : {TRUE}]
      [] t = "songs"          -> [id : Keys, title : {"new"}]
      [] t = "playTimes"      -> [id : Keys, name : {"new"}]
      [] t = "systemSettings" -> [id : Keys, enablePlayTimeSelection : {TRUE}]
      [] OTHER                -> [id : {1}]

\* the field that is the unique key of a table's rows
KeyField(t) ==
    CASE t = "users"     -> "username"
      [] t = "semesters" -> "name"
      [] OTHER           -> "id"

\* the rows the store holds when a request arrives: key 1 exists in every table
SeedRow(t) ==
    CASE t = "users"          -> [username |-> 1, name |-> "old", password |-> "old"]
      [] t = "semesters"      -> [name |-> 1, isActive |-> FALSE]
      [] t = "songs"          -> [id |-> 1, title |-> "old"]
      [] t = "playTimes"      -> [id |-> 1, name |-> "old"]
      [] t = "systemSettings" -> [id |-> 1, enablePlayTimeSelection |-> FALSE]
      [] OTHER                -> [id |-> 1]

SeedStore == [t \in Tables |-> << SeedRow(t) >>]

(* ------------------------------ the store ----------------------------- *)

RowKeys(rows, t) == {rows[k][KeyField(t)] : k \in 1..Len(rows)}

HasKey(rows, t, k) == k \in RowKeys(rows, t)

RowIndex(rows, t, k) == CHOOSE j \in 1..Len(rows) : rows[j][KeyField(t)] = k

SetMax(S) == IF S = {} THEN 0 ELSE CHOOSE m \in S : \A x \in S : x <= m

\* the id the store gives a row created without one
FreshId(rows, t) == SetMax(RowKeys(rows, t)) + 1

\* overwrite the fields of row that update names
Overwrite(row, update) ==
    [f \in DOMAIN row |-> IF f \in DOMAIN update THEN update[f] ELSE row[f]]

\* upsert({where, update, create}): update the row with the key, or insert
StoreUpsert(rows, t, where, update, create) ==
    IF HasKey(rows, t, where)
    THEN LET j == RowIndex(rows, t, where)
         IN  [ok |-> TRUE, key |-> where, had |-> TRUE, old |-> rows[j],
              rows |-> [rows EXCEPT ![j] = Overwrite(rows[j], update)]]
    ELSE [ok |-> TRUE, key |-> where, had |-> FALSE, old |-> create,
          rows |-> Append(rows, create)]

\* create({data}): insert; a row without the key field gets a fresh id, a row
\* whose key is already stored violates the unique constraint
StoreCreate(rows, t, data) ==
    LET kf  == KeyField(t)
        row == IF kf \in DOMAIN data THEN data
               ELSE [f \in DOMAIN data \cup {kf} |->
                       IF f = kf THEN FreshId(rows, t) ELSE data[f]]
    IN  IF HasKey(rows, t, row[kf])
        THEN [ok |-> FALSE, key |-> row[kf], had |-> TRUE, old |-> row, rows |-> rows]
        ELSE [ok |-> TRUE, key |-> row[kf], had |-> FALSE, old |-> row,
              rows |-> Append(rows, row)]

\* a store operation the store rejects for a reason of its own
StoreFault(rows) ==
    [ok |-> FALSE, key |-> 0, had |-> FALSE, old |-> <<>>, rows |-> rows]

RemoveKey(rows, t, k) == SelectSeq(rows, LAMBDA r : r[KeyField(t)] # k)

\* undo one write of a transaction
UndoOne(s, u) ==
    LET rows == s[u.table]
    IN  IF u.had
        THEN [s EXCEPT ![u.table] =
                 IF HasKey(rows, u.table, u.key)
                 THEN [rows EXCEPT ![RowIndex(rows, u.table, u.key)] = u.old]
                 ELSE Append(rows, u.old)]
        ELSE [s EXCEPT ![u.table] = RemoveKey(rows, u.table, u.key)]

\* roll a transaction back: undo its writes, the last one first
RECURSIVE Rollback(_, _)
Rollback(s, us) ==
    IF us = <<>> THEN s
    ELSE Rollback(UndoOne(s, us[Len(us)]), SubSeq(us, 1, Len(us) - 1))

(* ------------------------- requests and documents --------------------- *)

SeqsUpTo(S, n) == UNION {[1..k -> S] : k \in 0..n}

\* one key of a document's data: an array of at most n records, or (in the
\* documents of one collection) a truthy value that is no array; a falsy value
\* reads like an absent key
Entries(names, n) ==
    UNION {[name : {t}, array : {TRUE}, recs : SeqsUpTo(RecordsOf(t), n)] : t \in names}
    \cup (IF names = DocNames THEN [name : names, array : {FALSE}, recs : {<<>>}] ELSE {})

RECURSIVE TotalRecs(_)
TotalRecs(data) ==
    IF data = <<>> THEN 0 ELSE Len(data[1].recs) + TotalRecs(Tail(data))

\* the names of the collections of documents with several collections
MultiNames == Supported \cup {"votes", "foo"}

\* the data of a document: its keys in the order of the file, no key twice,
\* at most k keys with names of the set and at most n records in all
RECURSIVE DataUpTo(_, _, _)
DataUpTo(names, k, n) ==
    IF k = 0 THEN {<<>>}
    ELSE LET prev == DataUpTo(names, k - 1, n)
         IN  prev \cup
             UNION {{Append(d, e) :
                       e \in {x \in Entries(names, n - TotalRecs(d)) :
                                \A a \in 1..Len(d) : d[a].name # x.name}}
                    : d \in prev}

SmallData == DataUpTo(DocNames, 1, MaxRecs)

DocData == SmallData \cup DataUpTo(MultiNames, MaxTables, MaxRecs)

\* what readFile and JSON.parse give: unreadable or unparsable, or a document
\* that may lack metadata or data
WellFormed(d) == [readable |-> TRUE, metadata |-> TRUE, hasData |-> TRUE, data |-> d]

BadFiles ==
    { [readable |-> FALSE, metadata |-> FALSE, hasData |-> FALSE, data |-> <<>>],
      [readable |-> TRUE, metadata |-> FALSE, hasData |-> TRUE, data |-> <<>>],
      [readable |-> TRUE, metadata |-> TRUE, hasData |-> FALSE, data |-> <<>>],
      [readable |-> TRUE, metadata |-> FALSE, hasData |-> FALSE, data |-> <<>>],
      [readable |-> TRUE, metadata |-> FALSE, hasData |-> TRUE,
       data |-> << [name |-> "users", array |-> TRUE,
                    recs |-> << [username |-> 2, name |-> "new", password |-> "new"] >>] >>] }

Roles == {"NONE", "USER", "ADMIN", "SUPER_ADMIN"}

\* "other" stands for every mode string that is not "merge" or "replace"
Modes == {"merge", "replace", "other"}

\* the requests of an invocation that runs alone: every combination of the
\* request fields on the one-collection documents and the bad files, and the
\* administrator's restore without pre-clear on every document
Requests ==
    [role : Roles, filename : BOOLEAN, mode : Modes, clearExisting : BOOLEAN,
     file : BadFiles \cup {WellFormed(d) : d \in SmallData}]
    \cup
    [role : {"ADMIN"}, filename : {TRUE}, mode : {"merge", "replace"},
     clearExisting : {FALSE}, file : {WellFormed(d) : d \in DocData}]

NoRequest ==
    [role |-> "NONE", filename |-> FALSE, mode |-> "merge", clearExisting |-> FALSE,
     file |-> [readable |-> FALSE, metadata |-> FALSE, hasData |-> FALSE, data |-> <<>>]]

\* backupData.data[tableName]
HasEntry(data, t) == \E k \in 1..Len(data) : data[k].name = t
EntryOf(data, t) == data[CHOOSE k \in 1..Len(data) : data[k].name = t]

\* the collection is present, an array and not empty
Replayed(data, t) ==
    HasEntry(data, t) /\ EntryOf(data, t).array /\ Len(EntryOf(data, t).recs) > 0

(* ------------------------------ the handler --------------------------- *)

\* a validation that does not look at the parsed document
RequestFaultNoFormatCheck(r) ==
    IF r.role \notin {"ADMIN", "SUPER_ADMIN"} THEN 403
    ELSE IF ~r.filename THEN 400
    ELSE IF ~r.file.readable THEN 404
    ELSE 0

\* the status the validation throws, 0 when the request passes
RequestFault(r) ==
    IF r.role \notin {"ADMIN", "SUPER_ADMIN"} THEN 403
    ELSE IF ~r.filename THEN 400
    ELSE IF ~r.file.readable THEN 404
    ELSE IF ~r.file.metadata \/ ~r.file.hasData THEN 400
    ELSE 0

CompletedMessage == "restore completed"
CompletedWithErrorsMessage == "restore completed with errors"

\* const restoreResults = {...}
NewResults ==
    [success |-> TRUE, message |-> CompletedMessage, tablesProcessed |-> 0,
     recordsRestored |-> 0, errors |-> <<>>, warnings |-> <<>>]

\* one restoreResults object of the module, shared by the invocations
ResultsShared(i) == 1

\* the invocation whose restoreResults object invocation i reads and writes
ResultsOf(i) == i

\* a pre-clear failure recorded as an error
ClearFailedAsError(r) ==
    [r EXCEPT !.errors = Append(@, [table |-> "clear", message |-> "clear failed"])]

\* catch (error) of the pre-clear
ClearFailed(r) == [r EXCEPT !.warnings = Append(@, "clear failed")]

\* a record failure that is recorded and thrown on, out of the callback
CatchRecordErrorRethrow(r, t, msg) ==
    [res |-> [r EXCEPT !.errors = Append(@, [table |-> t, message |-> msg])],
     rethrow |-> TRUE]

\* catch (recordError): the error is recorded and does not leave the loop
CatchRecordError(r, t, msg) ==
    [res |-> [r EXCEPT !.errors = Append(@, [table |-> t, message |-> msg])],
     rethrow |-> FALSE]

\* recordsRestored assigned, not added to
TableDoneOverwrite(r, count) ==
    [r EXCEPT !.recordsRestored = count, !.tablesProcessed = @ + 1]

\* after the records of a table: recordsRestored += restoredCount, tablesProcessed++
TableDone(r, count) ==
    [r EXCEPT !.recordsRestored = @ + count, !.tablesProcessed = @ + 1]

\* a table without a case that leaves the loop before the accounting
UnsupportedTableNotCounted(r) == r

\* a table of the switch's default: every record continues the loop
UnsupportedTable(r) == TableDone(r, 0)

\* a loop over the keys of the document
ReplayOrderOfDocument(data) == [k \in 1..Len(data) |-> data[k].name]

\* the tables the replay loop visits, in its order
ReplayOrder(data) == restoreOrder

\* the synchronous part of the replay loop from position k of the order on:
\* up to the first record that awaits the store, or the end of the loop
RECURSIVE Scan(_, _, _)
Scan(data, k, r) ==
    LET order == ReplayOrder(data)
    IN  IF k > Len(order) THEN [ti |-> k, res |-> r]
        ELSE IF ~Replayed(data, order[k]) THEN Scan(data, k + 1, r)
        ELSE IF order[k] \in Supported THEN [ti |-> k, res |-> r]
        ELSE Scan(data, k + 1, UnsupportedTable(r))

\* the switch in every other mode: a create; the data of songs, playTimes and
\* systemSettings does not carry the id of the record
CreateRecord(rows, t, record) ==
    CASE t = "users" ->
           StoreCreate(rows, t, [username |-> record.username, name |-> record.name,
                                 password |-> record.password])
      [] t = "songs" ->
           LET songData == [title |-> record.title]
           IN  StoreCreate(rows, t, songData)
      [] t = "playTimes" ->
           StoreCreate(rows, t, [name |-> record.name])
      [] t = "semesters" ->
           StoreCreate(rows, t, [name |-> record.name, isActive |-> record.isActive])
      [] t = "systemSettings" ->
           StoreCreate(rows, t,
                       [enablePlayTimeSelection |-> record.enablePlayTimeSelection])

\* a merge that inserts without looking for the row
UpsertRecordAsCreate(rows, t, record) == CreateRecord(rows, t, record)

\* an update of users that also writes the password of the backup
UsersUpdateWithPassword(record) ==
    [name |-> record.name, password |-> record.password]

\* update: of the users upsert; name stands for name, grade, class, role,
\* lastLogin, lastLoginIp and passwordChangedAt
UsersUpdate(record) == [name |-> record.name]

\* the switch in mode "merge": an upsert on the natural key of the table
UpsertRecord(rows, t, record) ==
    CASE t = "users" ->
           StoreUpsert(rows, t, record.username, UsersUpdate(record),
                       [username |-> record.username, name |-> record.name,
                        password |-> record.password])
      [] t = "songs" ->
           LET songData == [title |-> record.title]
           IN  StoreUpsert(rows, t, record.id, songData,
                           [id |-> record.id, title |-> record.title])
      [] t = "playTimes" ->
           StoreUpsert(rows, t, record.id, [name |-> record.name],
                       [id |-> record.id, name |-> record.name])
      [] t = "semesters" ->
           StoreUpsert(rows, t, record.name, [isActive |-> record.isActive],
                       [name |-> record.name, isActive |-> record.isActive])
      [] t = "systemSettings" ->
           StoreUpsert(rows, t, record.id,
                       [enablePlayTimeSelection |-> record.enablePlayTimeSelection],
                       [id |-> record.id,
                        enablePlayTimeSelection |-> record.enablePlayTimeSelection])

\* the store operation of the switch for one record
ApplyRecord(rows, t, mode, record) ==
    IF mode = "merge" THEN UpsertRecord(rows, t, record)
    ELSE CreateRecord(rows, t, record)

\* the name of the store call of the switch
OpName(mode) == IF mode = "merge" THEN "upsert" ELSE "create"

\* a post-step that also fails the result on a warning
FinalizeOnWarnings(r) ==
    IF Len(r.errors) > 0 \/ Len(r.warnings) > 0
    THEN [r EXCEPT !.success = FALSE, !.message = CompletedWithErrorsMessage]
    ELSE r

\* the post-step
Finalize(r) ==
    IF Len(r.errors) > 0
    THEN [r EXCEPT !.success = FALSE, !.message = CompletedWithErrorsMessage]
    ELSE r

(* ------------------------------- actions ------------------------------ *)

Data(i) == req[i].file.data

\* the transaction callback starts: the loop runs up to its first store call
EnterReplay(i, r) ==
    LET s == Scan(Data(i), 1, r)
    IN  /\ res' = [res EXCEPT ![ResultsOf(i)] = s.res]
        /\ ti' = [ti EXCEPT ![i] = s.ti]
        /\ ri' = [ri EXCEPT ![i] = 1]
        /\ restoredCount' = [restoredCount EXCEPT ![i] = 0]
        /\ pc' = [pc EXCEPT ![i] = IF s.ti > Len(ReplayOrder(Data(i)))
                                   THEN "commit" ELSE "replay"]

\* the request validation, up to the first store call of the handler
Validate(i) ==
    /\ pc[i] = "start"
    /\ IF RequestFault(req[i]) # 0
       THEN /\ response' = [response EXCEPT ![i] = RequestFault(req[i])]
            /\ pc' = [pc EXCEPT ![i] = "done"]
            /\ UNCHANGED <<res, restoredCount, ci, ti, ri>>
       ELSE /\ UNCHANGED response
            /\ IF req[i].clearExisting
               THEN /\ res' = [res EXCEPT ![ResultsOf(i)] = NewResults]
                    /\ ci' = [ci EXCEPT ![i] = 1]
                    /\ pc' = [pc EXCEPT ![i] = "clear"]
                    /\ UNCHANGED <<restoredCount, ti, ri>>
               ELSE /\ EnterReplay(i, NewResults)
                    /\ UNCHANGED ci
    /\ UNCHANGED <<req, store, undo, log>>

\* one deleteMany of the pre-clear
ClearStep(i) ==
    /\ pc[i] = "clear"
    /\ LET t == clearOrder[ci[i]]
       IN  \E fault \in BOOLEAN :
             /\ log' = [log EXCEPT ![i] =
                          Append(@, [op |-> "deleteMany", table |-> t, ri |-> 0,
                                     ok |-> ~fault])]
             /\ IF fault
                THEN /\ EnterReplay(i, ClearFailed(res[ResultsOf(i)]))
                     /\ UNCHANGED <<store, ci>>
                ELSE /\ store' = [store EXCEPT ![t] = <<>>]
                     /\ IF ci[i] = Len(clearOrder)
                        THEN /\ EnterReplay(i, res[ResultsOf(i)])
                             /\ UNCHANGED ci
                        ELSE /\ ci' = [ci EXCEPT ![i] = @ + 1]
                             /\ UNCHANGED <<pc, res, restoredCount, ti, ri>>
    /\ UNCHANGED <<req, undo, response>>

\* one upsert or create of the replay, and the loop code up to the next one
RecordStep(i) ==
    /\ pc[i] = "replay"
    /\ LET t      == ReplayOrder(Data(i))[ti[i]]
           recs   == EntryOf(Data(i), t).recs
           record == recs[ri[i]]
           mode   == req[i].mode
       IN  \E fault \in BOOLEAN :
             LET op    == IF fault THEN StoreFault(store[t])
                          ELSE ApplyRecord(store[t], t, mode, record)
                 caught == CatchRecordError(res[ResultsOf(i)], t,
                              IF fault THEN "rejected" ELSE "unique constraint")
                 count == IF op.ok THEN restoredCount[i] + 1 ELSE restoredCount[i]
                 r1    == IF op.ok THEN res[ResultsOf(i)] ELSE caught.res
             IN  /\ log' = [log EXCEPT ![i] =
                              Append(@, [op |-> OpName(mode), table |-> t,
                                         ri |-> ri[i], ok |-> op.ok])]
                 /\ IF ~op.ok /\ caught.rethrow
                    THEN \* the callback rejects: the transaction is rolled back
                         /\ store' = Rollback(store, undo[i])
                         /\ undo' = [undo EXCEPT ![i] = <<>>]
                         /\ res' = [res EXCEPT ![ResultsOf(i)] = r1]
                         /\ response' = [response EXCEPT ![i] = 500]
                         /\ pc' = [pc EXCEPT ![i] = "done"]
                         /\ UNCHANGED <<restoredCount, ti, ri>>
                    ELSE /\ store' = [store EXCEPT ![t] = op.rows]
                         /\ undo' = [undo EXCEPT ![i] =
                                       IF op.ok
                                       THEN Append(@, [table |-> t, key |-> op.key,
                                                       had |-> op.had, old |-> op.old])
                                       ELSE @]
                         /\ UNCHANGED response
                         /\ IF ri[i] < Len(recs)
                            THEN /\ ri' = [ri EXCEPT ![i] = @ + 1]
                                 /\ restoredCount' = [restoredCount EXCEPT ![i] = count]
                                 /\ res' = [res EXCEPT ![ResultsOf(i)] = r1]
                                 /\ UNCHANGED <<pc, ti>>
                            ELSE LET s == Scan(Data(i), ti[i] + 1, TableDone(r1, count))
                                 IN  /\ res' = [res EXCEPT ![ResultsOf(i)] = s.res]
                                     /\ ti' = [ti EXCEPT ![i] = s.ti]
                                     /\ ri' = [ri EXCEPT ![i] = 1]
                                     /\ restoredCount' = [restoredCount EXCEPT ![i] = 0]
                                     /\ pc' = [pc EXCEPT ![i] =
                                                 IF s.ti > Len(ReplayOrder(Data(i)))
                                                 THEN "commit" ELSE "replay"]
    /\ UNCHANGED <<req, ci>>

\* the end of the transaction, the post-step and the return
Commit(i) ==
    /\ pc[i] = "commit"
    /\ \E fault \in BOOLEAN :
         IF fault
         THEN /\ store' = Rollback(store, undo[i])
              /\ response' = [response EXCEPT ![i] = 500]
              /\ UNCHANGED res
         ELSE /\ res' = [res EXCEPT ![ResultsOf(i)] = Finalize(@)]
              /\ response' = [response EXCEPT ![i] = 200]
              /\ UNCHANGED store
    /\ undo' = [undo EXCEPT ![i] = <<>>]
    /\ pc' = [pc EXCEPT ![i] = "done"]
    /\ UNCHANGED <<req, restoredCount, ci, ti, ri, log>>

Next == \E i \in Invs : Validate(i) \/ ClearStep(i) \/ RecordStep(i) \/ Commit(i)

InitLocals ==
    /\ res = [i \in Invs |-> NewResults]
    /\ restoredCount = [i \in Invs |-> 0]
    /\ ci = [i \in Invs |-> 1]
    /\ ti = [i \in Invs |-> 1]
    /\ ri = [i \in Invs |-> 1]
    /\ store = SeedStore
    /\ undo = [i \in Invs |-> <<>>]
    /\ log = [i \in Invs |-> <<>>]
    /\ response = [i \in Invs |-> 0]

\* one request arrives and runs alone
Init ==
    /\ pc = [i \in Invs |-> IF i = 1 THEN "start" ELSE "off"]
    /\ \E r \in Requests : req = [i \in Invs |-> IF i = 1 THEN r ELSE NoRequest]
    /\ InitLocals

Spec == Init /\ [][Next]_vars

\* the requests of two invocations that run at the same time on one store:
\* restores of one users collection whose records take the keys in turn, as a
\* merge, as a replace, or as a replace after a pre-clear; and a request that
\* fails its validation
ConcData ==
    {d \in DataUpTo({"users"}, 1, MaxRecs) :
        \A e \in 1..Len(d) : \A k \in 1..Len(d[e].recs) :
            d[e].recs[k].username = IF k % 2 = 1 THEN 1 ELSE 2}

ConcRequests ==
    {r \in [role : {"ADMIN"}, filename : {TRUE}, mode : {"merge", "replace"},
            clearExisting : BOOLEAN, file : {WellFormed(d) : d \in ConcData}] :
        r.clearExisting => r.mode = "replace"}
    \cup {NoRequest}

\* two requests arrive and are handled concurrently
InitConc ==
    /\ pc = [i \in Invs |-> "start"]
    /\ req \in [Invs -> ConcRequests]
    /\ InitLocals

SpecConc == InitConc /\ [][Next]_vars

(* ------------------------- helpers of the properties ------------------ *)

\* the position of a table in the fixed order
Pos(t) == CHOOSE k \in 1..Len(restoreOrder) : restoreOrder[k] = t

\* the positions of the record operations (upsert, create) in a log
RecOps(l) == {k \in 1..Len(l) : l[k].op # "deleteMany"}
OkOps(l) == {k \in RecOps(l) : l[k].ok}
FailedOps(l) == {k \in RecOps(l) : ~l[k].ok}
ClearOps(l) == {k \in 1..Len(l) : l[k].op = "deleteMany"}

\* the record a log entry of invocation i is about
RecordAt(i, e) == EntryOf(Data(i), e.table).recs[e.ri]

\* the non-empty arrays of the document among the names of S
NonEmptyIn(data, S) ==
    {k \in 1..Len(data) : data[k].name \in S /\ data[k].array /\ Len(data[k].recs) > 0}

RECURSIVE RecordsIn(_, _)
RecordsIn(data, S) ==
    IF data = <<>> THEN 0
    ELSE (IF data[1].name \in S /\ data[1].array THEN Len(data[1].recs) ELSE 0)
         + RecordsIn(Tail(data), S)

\* the request has one of the request-level faults
Faulty(r) ==
    \/ r.role \notin {"ADMIN", "SUPER_ADMIN"}
    \/ ~r.filename
    \/ ~r.file.readable
    \/ ~r.file.metadata
    \/ ~r.file.hasData

\* the rows of table t whose natural key is k
RowsWithKey(t, k) == {j \in 1..Len(store[t]) : store[t][j][KeyField(t)] = k}

(* ------------------------------ properties ---------------------------- *)

\* C1: a request with a request-level fault (caller not ADMIN/SUPER_ADMIN,
\* filename missing, file unreadable or unparsable, document without metadata
\* or data) is answered with an error status and has executed no deleteMany,
\* create or upsert: its log is empty and the store is as it was, for every
\* mode and for clearExisting = true.
C1_FaultBeforeMutation ==
    \A i \in Invs :
        (pc[i] # "off" /\ Faulty(req[i])) =>
            /\ log[i] = <<>>
            /\ store = SeedStore
            /\ pc[i] \in {"start", "done"}
            /\ pc[i] = "done" => response[i] \in {400, 403, 404}

C1_Witness ==
    /\ pc[1] = "done"
    /\ response[1] = 400
    /\ req[1].role = "ADMIN" /\ req[1].filename /\ req[1].file.readable
    /\ ~req[1].file.metadata /\ req[1].file.data # <<>>
    /\ req[1].clearExisting /\ req[1].mode = "replace"
    /\ store = SeedStore

\* C2: the record operations of an invocation follow the fixed order of the
\* collections whatever the order of the keys of the document: an operation
\* on a collection that comes earlier in restoreOrder is never after one on a
\* later collection, and within a collection the records are applied in the
\* order of the document.
C2_FixedOrder ==
    \A i \in Invs : \A a, b \in RecOps(log[i]) :
        a < b =>
            \/ Pos(log[i][a].table) < Pos(log[i][b].table)
            \/ /\ log[i][a].table = log[i][b].table
               /\ log[i][a].ri < log[i][b].ri

C2_Witness ==
    /\ Len(Data(1)) = 2
    /\ Data(1)[1].name \in Supported /\ Data(1)[2].name \in Supported
    /\ Pos(Data(1)[1].name) > Pos(Data(1)[2].name)
    /\ Len(log[1]) = 2
    /\ log[1][1].table = Data(1)[2].name
    /\ log[1][2].table = Data(1)[1].name

\* C3: in mode "merge" a record that has just been restored is stored in
\* exactly one row for its natural key, and restoring the same record again
\* leaves the store as it is.
C3_MergeIdempotent ==
    \A i \in Invs :
        (/\ req[i].mode = "merge"
         /\ response[i] # 500
         /\ log[i] # <<>>
         /\ Len(log[i]) \in OkOps(log[i])) =>
            LET e == log[i][Len(log[i])]
                r == RecordAt(i, e)
            IN  /\ Cardinality(RowsWithKey(e.table, r[KeyField(e.table)])) = 1
                /\ ApplyRecord(store[e.table], e.table, "merge", r).ok
                /\ ApplyRecord(store[e.table], e.table, "merge", r).rows
                       = store[e.table]

\* the same record restored twice by one document, both times with success
C3_Witness ==
    /\ req[1].mode = "merge"
    /\ response[1] = 200
    /\ Len(log[1]) = 2
    /\ OkOps(log[1]) = {1, 2}
    /\ log[1][1].table = log[1][2].table
    /\ RecordAt(1, log[1][1]) = RecordAt(1, log[1][2])
    /\ Cardinality(RowsWithKey(log[1][1].table,
                               RecordAt(1, log[1][1])[KeyField(log[1][1].table)])) = 1

\* the record the next store call of invocation i restores
NextTable(i) == ReplayOrder(Data(i))[ti[i]]
NextRecord(i) == EntryOf(Data(i), NextTable(i)).recs[ri[i]]

\* C4: in mode "replace", for each supported collection, a record whose
\* natural key is already stored fails as an insert: the operation fails, one
\* error entry of that collection is added, the record is not counted, the
\* store keeps its rows and the restore goes on.
C4_ReplaceExistingKeyFails ==
    [][\A i \in Invs :
          (/\ pc[i] = "replay"
           /\ log'[i] # log[i]
           /\ req[i].mode = "replace"
           /\ RowsWithKey(NextTable(i), NextRecord(i)[KeyField(NextTable(i))]) # {})
          =>
          (/\ ~log'[i][Len(log'[i])].ok
           /\ store' = store
           /\ Len(res'[i].errors) = Len(res[i].errors) + 1
           /\ res'[i].errors[Len(res'[i].errors)].table = NextTable(i)
           /\ pc'[i] \in {"replay", "commit"})]_vars

\* C5: in a returned result recordsRestored is the number of record
\* operations that succeeded and errors has one entry for each that failed,
\* so together they count the records of the present supported collections.
C5_Accounting ==
    \A i \in Invs :
        response[i] = 200 =>
            /\ res[i].recordsRestored = Cardinality(OkOps(log[i]))
            /\ Len(res[i].errors) = Cardinality(FailedOps(log[i]))
            /\ res[i].recordsRestored + Len(res[i].errors)
                   = RecordsIn(Data(i), Supported)

\* two collections, a record restored in each and a record failed in one
C5_Witness ==
    /\ response[1] = 200
    /\ res[1].tablesProcessed = 2
    /\ res[1].recordsRestored = 1
    /\ Len(res[1].errors) = 1
    /\ Len(log[1]) = 2
    /\ log[1][1].ok /\ ~log[1][2].ok

\* C6 as claimed: tablesProcessed of a returned result is the number of
\* non-empty collections of the input among the five supported ones.
C6_OnlySupportedCounted ==
    \A i \in Invs :
        response[i] = 200 =>
            res[i].tablesProcessed = Cardinality(NonEmptyIn(Data(i), Supported))

\* C6, amended: a non-empty collection without a case of the switch causes no
\* store operation, no error entry and no restored record; a name outside the
\* fixed order is not counted, but votes, schedules, notificationSettings and
\* notifications are: tablesProcessed is the number of non-empty collections
\* of the input among the nine of the fixed order.
C6_UnsupportedSkippedButCounted ==
    \A i \in Invs :
        response[i] = 200 =>
            /\ res[i].tablesProcessed = Cardinality(NonEmptyIn(Data(i), Tables))
            /\ \A k \in RecOps(log[i]) : log[i][k].table \in Supported
            /\ \A k \in 1..Len(res[i].errors) : res[i].errors[k].table \in Supported
            /\ res[i].recordsRestored <= RecordsIn(Data(i), Supported)
            /\ ~req[i].clearExisting =>
                   \A t \in Tables \ Supported : store[t] = SeedStore[t]

\* a document of a votes collection and a foo collection, one record each
C6_Witness ==
    /\ response[1] = 200
    /\ NonEmptyIn(Data(1), {"votes"}) # {}
    /\ NonEmptyIn(Data(1), {"foo"}) # {}
    /\ res[1].tablesProcessed = 1
    /\ res[1].recordsRestored = 0
    /\ res[1].errors = <<>>
    /\ log[1] = <<>>

\* C7: a deleteMany of the pre-clear that fails adds one warning and no
\* error, ends the pre-clear (no later deleteMany), and leaves the replay to
\* run on the store as the deletions before it left it; the result keeps
\* success = true when no record fails.
C7_ClearFailureIsWarning ==
    \A i \in Invs : \A k \in ClearOps(log[i]) :
        ~log[i][k].ok =>
            /\ Len(res[i].warnings) = 1
            /\ \A j \in ClearOps(log[i]) : j <= k
            /\ Len(res[i].errors) = Cardinality(FailedOps(log[i]))
            /\ pc[i] \in {"replay", "commit", "done"}
            /\ pc[i] \in {"commit", "done"} =>
                   Cardinality(RecOps(log[i])) = RecordsIn(Data(i), Supported)
            /\ \A t \in Tables \ Supported :
                   store[t] = IF \E j \in ClearOps(log[i]) :
                                     log[i][j].table = t /\ log[i][j].ok
                              THEN <<>> ELSE SeedStore[t]
            /\ \A t \in Supported :
                   (\A j \in ClearOps(log[i]) : log[i][j].table # t)
                       => RowsWithKey(t, 1) # {}
            /\ (response[i] = 200 /\ FailedOps(log[i]) = {}) =>
                   res[i].success /\ res[i].errors = <<>>

\* the third deleteMany fails, a record is then restored and the result is a
\* success with one warning
C7_Witness ==
    /\ response[1] = 200
    /\ Len(log[1]) = 4
    /\ log[1][1].ok /\ log[1][2].ok
    /\ log[1][3].op = "deleteMany" /\ ~log[1][3].ok
    /\ log[1][4].op # "deleteMany" /\ log[1][4].ok
    /\ res[1].success
    /\ Len(res[1].warnings) = 1
    /\ res[1].recordsRestored = 1
    /\ store["votes"] = SeedStore["votes"]

\* C8: in a returned result success is false and the message is the
\* completed-with-errors one exactly when errors is not empty; with errors
\* empty the result keeps success = true and the first message, with or
\* without warnings.
C8_SuccessIffNoErrors ==
    \A i \in Invs :
        response[i] = 200 =>
            IF res[i].errors # <<>>
            THEN ~res[i].success /\ res[i].message = CompletedWithErrorsMessage
            ELSE res[i].success /\ res[i].message = CompletedMessage

C8_Witness ==
    /\ response[1] = 200
    /\ res[1].errors = <<>>
    /\ res[1].warnings # <<>>
    /\ res[1].success
    /\ res[1].message = CompletedMessage

\* the store after the operations of a log that succeeded, in their order
RECURSIVE StoreAfter(_, _, _)
StoreAfter(i, l, s) ==
    IF l = <<>> THEN s
    ELSE LET e == l[1]
             t == e.table
         IN  StoreAfter(i, Tail(l),
                 IF ~e.ok THEN s
                 ELSE IF e.op = "deleteMany" THEN [s EXCEPT ![t] = <<>>]
                 ELSE [s EXCEPT ![t] =
                         ApplyRecord(s[t], t, req[i].mode, RecordAt(i, e)).rows])

\* C9: a record failure does not end the replay and rolls nothing back: when
\* the callback has ended every record of the supported collections has been
\* attempted, and unless the commit itself failed the store holds the effect
\* of every operation that succeeded, before or after a failed one.
C9_BestEffort ==
    \A i \in Invs :
        (pc[i] # "off" /\ ~Faulty(req[i])) =>
            /\ pc[i] \in {"commit", "done"} =>
                   Cardinality(RecOps(log[i])) = RecordsIn(Data(i), Supported)
            /\ response[i] # 500 => store = StoreAfter(i, log[i], SeedStore)
            /\ response[i] = 500 =>
                   store = StoreAfter(i, SelectSeq(log[i],
                                         LAMBDA e : e.op = "deleteMany"), SeedStore)

\* a failed record of one collection, then a restored record of a later one
C9_Witness ==
    /\ response[1] = 200
    /\ res[1].errors # <<>>
    /\ Len(log[1]) = 2
    /\ ~log[1][1].ok /\ log[1][2].ok
    /\ log[1][1].table # log[1][2].table
    /\ store # SeedStore

\* C10: with two invocations running concurrently on one store, a returned
\* result counts the collections of its own document, the record operations
\* of its own log and the pre-clear failure of its own log, and nothing of the
\* other invocation.
C10_ResultIsPrivate ==
    \A i \in Invs :
        response[i] = 200 =>
            /\ res[i].tablesProcessed = Cardinality(NonEmptyIn(Data(i), Tables))
            /\ res[i].recordsRestored = Cardinality(OkOps(log[i]))
            /\ Len(res[i].errors) = Cardinality(FailedOps(log[i]))
            /\ \A k \in 1..Len(res[i].errors) :
                   \E j \in FailedOps(log[i]) :
                       log[i][j].table = res[i].errors[k].table
            /\ Len(res[i].warnings)
                   = Cardinality({k \in ClearOps(log[i]) : ~log[i][k].ok})

\* invocation 1 cleared every table and then failed to create the user that
\* invocation 2 had merged in the meantime; both returned their own counts
C10_Witness ==
    /\ response[1] = 200 /\ response[2] = 200
    /\ req[1].clearExisting /\ req[2].mode = "merge"
    /\ Cardinality(ClearOps(log[1])) = Len(clearOrder)
    /\ \A k \in ClearOps(log[1]) : log[1][k].ok
    /\ Len(res[1].errors) = 1
    /\ res[1].errors[1].message = "unique constraint"
    /\ res[1].warnings = <<>>
    /\ res[2].errors = <<>>
    /\ res[2].recordsRestored = 2
    /\ res[1].recordsRestored = 1

\* C11: in mode "merge" a users record whose username is already stored
\* changes neither the password nor the username of the stored user, only the
\* other fields, and leaves every other user as it is; the password of the
\* backup is written only when the record creates the row.
C11_MergeKeepsPassword ==
    [][\A i \in Invs :
          (/\ pc[i] = "replay"
           /\ log'[i] # log[i]
           /\ req[i].mode = "merge"
           /\ NextTable(i) = "users"
           /\ log'[i][Len(log'[i])].ok)
          =>
          LET r   == NextRecord(i)
              old == store["users"]
              new == store'["users"]
          IN  IF RowsWithKey("users", r.username) # {}
              THEN /\ Len(new) = Len(old)
                   /\ \A j \in 1..Len(old) :
                          /\ new[j].username = old[j].username
                          /\ new[j].password = old[j].password
                          /\ new[j].name = IF old[j].username = r.username
                                           THEN r.name ELSE old[j].name
              ELSE new = Append(old, [username |-> r.username, name |-> r.name,
                                      password |-> r.password])]_vars

\* a merge of the stored user 1 and of the new user 2: user 1 keeps its
\* password and takes the name of the backup, user 2 has the backup's password
C11_Witness ==
    /\ response[1] = 200
    /\ req[1].mode = "merge"
    /\ Len(log[1]) = 2 /\ log[1][1].ok /\ log[1][2].ok
    /\ store["users"] = << [username |-> 1, name |-> "new", password |-> "old"],
                           [username |-> 2, name |-> "new", password |-> "new"] >>

====
